---- MODULE Spec2Model ----
(***************************************************************************)
(* GroqJet travel planner (src/main.py): the Streamlit session state and   *)
(* the three user events that change it (Generate Initial Itinerary, a     *)
(* chat turn, Reset Planner), with the two helpers search_web and          *)
(* get_groq_response.                                                      *)
(*                                                                         *)
(* Text is modelled as a sequence of tokens: concatenation is \o, the      *)
(* empty string is <<>>, "s is a prefix of t" and "t contains s" are what  *)
(* they are on sequences.  Python's None is modelled by the empty text     *)
(* where the program only ever tests the value for truth (web_context,     *)
(* response, api_key): None and "" are both falsy.                         *)
(* A dict is modelled as a set of <<key, value>> pairs, {} the empty dict. *)
(***************************************************************************)
EXTENDS Integers, Sequences, FiniteSets, TLC

VARIABLES messages, trip_started, trip_context, ev

vars == <<messages, trip_started, trip_context, ev>>

-----------------------------------------------------------------------------
(* Bounds of the model and the inputs the events draw from.                *)

MaxMsgs == 4

Sources == {"", "New York"}
Destinations == {"", "Tokyo"}
\* Dates are day offsets from today (both date inputs have min_value today).
Days == {0, 1, 61, 62}
\* os.getenv("GROQ_API_KEY"): absent (None, falsy) or a key.
ApiKeys == {"", "gsk_key"}
\* What the user types in the chat input (never empty: st.chat_input
\* returns None, and the walrus test fails, until a non-empty text is sent).
Prompts == {<<"weather next week?">>, <<"vegan food?">>}
\* What the completion provider answers when it does not raise; the empty
\* text is a reply the caller treats as no reply.
Replies == {<<>>, <<"**Day 1** ...">>}
\* What the search provider can rank.
ResultPool ==
    { [title |-> "t1", body |-> "b1", href |-> "h1"],
      [title |-> "t2", body |-> "b2", href |-> "h2"] }

-----------------------------------------------------------------------------
(* Program constants.                                                      *)

max_results == 3
MaxTripDays == 60

SYSTEM_PROMPT == <<"You are GroqJet, an expert AI travel consultant. ...">>
CONTEXT_HEADER == <<"\n\n[Real-Time Web Context - Use this to answer the user]:\n">>

None == <<>>

-----------------------------------------------------------------------------
(* Helpers on text, lists and dicts.                                       *)

\* Truth of a text (token sequence) and of a Python str kept as one token.
Truthy(x) == x # <<>>
TruthyStr(s) == s # ""

IsPrefix(s, t) == Len(s) <= Len(t) /\ SubSeq(t, 1, Len(s)) = s

Contains(text, tok) == \E i \in 1..Len(text) : text[i] = tok

SeqsUpTo(S, n) == UNION { [1..k -> S] : k \in 0..n }

\* dict.get(key, default)
DictGet(d, key, default) ==
    IF \E p \in d : p[1] = key
    THEN (CHOOSE p \in d : p[1] = key)[2]
    ELSE default

\* str(date)
DateStr(d) == "day+" \o ToString(d)

Msg(role, content) == [role |-> role, content |-> content]

\* list.append({"role": role, "content": content})
AppendMessageFront(msgs, role, content) == <<Msg(role, content)>> \o msgs
AppendMessage(msgs, role, content) == Append(msgs, Msg(role, content))

-----------------------------------------------------------------------------
(* search_web: the provider raises ("error") or returns a ranked list of   *)
(* at most max_results results; no results and an exception both give None.*)

SearchOutcomes ==
    {[raised |-> TRUE, results |-> <<>>]}
    \cup {[raised |-> FALSE, results |-> rs] : rs \in SeqsUpTo(ResultPool, max_results)}

RECURSIVE FormatResults(_, _)
FormatResults(results, i) ==
    IF i > Len(results) THEN <<>>
    ELSE <<"Source ", ToString(i), ":\n- Title: ", results[i].title,
           "\n- Snippet: ", results[i].body,
           "\n- Link: ", results[i].href, "\n\n">>
         \o FormatResults(results, i + 1)

search_web(query, outcome) ==
    IF outcome.raised THEN None
    ELSE IF outcome.results = <<>> THEN None
    ELSE FormatResults(outcome.results, 1)

-----------------------------------------------------------------------------
(* get_groq_response.                                                      *)

\* messages_payload = [msg.copy() for msg in messages]
MessagesPayload(msgs) == [i \in 1..Len(msgs) |-> Msg(msgs[i].role, msgs[i].content)]

\* if web_context and messages_payload: last_msg['content'] += ...
InjectContextFirst(payload, web_context) ==
    IF Truthy(web_context) /\ payload # <<>>
    THEN [payload EXCEPT ![1].content = @ \o CONTEXT_HEADER \o web_context]
    ELSE payload
InjectContext(payload, web_context) ==
    IF Truthy(web_context) /\ payload # <<>>
    THEN [payload EXCEPT ![Len(payload)].content = @ \o CONTEXT_HEADER \o web_context]
    ELSE payload

\* The caller's list once the payload has been edited: the payload holds
\* copies of the caller's dicts, so the += on the last copy rebinds the
\* copy's 'content' only and the caller's list is what it was.  Were the
\* payload the caller's own dicts, the edit would show in the caller's list.
CallerMessagesAliased(msgs, payload) == payload
CallerMessages(msgs, payload) == msgs

CompletionOutcomes ==
    {[raised |-> TRUE, reply |-> <<>>]}
    \cup {[raised |-> FALSE, reply |-> r] : r \in Replies}

\* Returns the response (None on a missing key or an exception), whether the
\* provider was called, the full_history sent, and the caller's list after
\* the call.
get_groq_response(msgs, api_key, web_context, outcome) ==
    IF ~TruthyStr(api_key)
    THEN [response |-> None, called |-> FALSE, sent |-> <<>>, session |-> msgs]
    ELSE LET payload == InjectContext(MessagesPayload(msgs), web_context)
             full_history == <<Msg("system", SYSTEM_PROMPT)>> \o payload
         IN  [response |-> IF outcome.raised THEN None ELSE outcome.reply,
              called   |-> TRUE,
              sent     |-> full_history,
              session  |-> CallerMessages(msgs, payload)]

\* if response: messages.append({"role": "assistant", "content": response})
AppendReplyAlways(msgs, response) == AppendMessage(msgs, "assistant", response)
AppendReply(msgs, response) ==
    IF Truthy(response) THEN AppendMessage(msgs, "assistant", response) ELSE msgs

-----------------------------------------------------------------------------
(* Generate Initial Itinerary.                                             *)

\* The if / elif chain that guards the intake.
IntakeCheckOffByOne(source, destination, api_key, start_date, end_date) ==
    IF ~TruthyStr(source) \/ ~TruthyStr(destination) THEN "missing"
    ELSE IF ~TruthyStr(api_key) THEN "nokey"
    ELSE IF end_date - start_date > MaxTripDays + 1 THEN "toolong"
    ELSE "ok"
IntakeCheck(source, destination, api_key, start_date, end_date) ==
    IF ~TruthyStr(source) \/ ~TruthyStr(destination) THEN "missing"
    ELSE IF ~TruthyStr(api_key) THEN "nokey"
    ELSE IF end_date - start_date > MaxTripDays THEN "toolong"
    ELSE "ok"

InitialPromptNoDestination(source, destination, start_date, end_date) ==
    <<"Please create a travel itinerary from ", source, " to the destination ",
      "for the dates ", DateStr(start_date), " to ", DateStr(end_date), ". ",
      "Include suggestions for accommodation, food, and key attractions.">>
InitialPrompt(source, destination, start_date, end_date) ==
    <<"Please create a travel itinerary from ", source, " to ", destination, " ",
      "for the dates ", DateStr(start_date), " to ", DateStr(end_date), ". ",
      "Include suggestions for accommodation, food, and key attractions.">>

TripContext(source, destination, start_date, end_date) ==
    { <<"source", source>>, <<"destination", destination>>,
      <<"start_date", DateStr(start_date)>>, <<"end_date", DateStr(end_date)>> }

\* What the last event was and what it did (history of the run, read by the
\* properties only).
NoEvent ==
    [kind |-> "init", api_key |-> "", verdict |-> "", source |-> "",
     destination |-> "", start_date |-> 0, end_date |-> 0, user |-> <<>>,
     searched |-> FALSE, query |-> <<>>, web |-> <<>>, called |-> FALSE,
     arg |-> <<>>, sent |-> <<>>, response |-> <<>>, before |-> <<>>,
     started_before |-> FALSE, context_before |-> {}]

Init ==
    /\ messages = <<>>
    /\ trip_started = FALSE
    /\ trip_context = {}
    /\ ev = NoEvent

GenerateInitialItinerary ==
    \E source \in Sources, destination \in Destinations,
       start_date \in Days, end_date \in Days,
       api_key \in ApiKeys, outcome \in CompletionOutcomes :
      /\ ~trip_started
      /\ Len(messages) + 2 <= MaxMsgs
      /\ LET verdict == IntakeCheck(source, destination, api_key, start_date, end_date)
             base == [NoEvent EXCEPT !.kind = "intake", !.api_key = api_key,
                        !.verdict = verdict, !.source = source,
                        !.destination = destination, !.start_date = start_date,
                        !.end_date = end_date, !.before = messages,
                        !.started_before = trip_started,
                        !.context_before = trip_context]
         IN IF verdict # "ok"
            THEN /\ UNCHANGED <<messages, trip_started, trip_context>>
                 /\ ev' = base
            ELSE LET initial_prompt ==
                         InitialPrompt(source, destination, start_date, end_date)
                     msgs1 == AppendMessage(messages, "user", initial_prompt)
                     r == get_groq_response(msgs1, api_key, None, outcome)
                 IN /\ trip_context' =
                           TripContext(source, destination, start_date, end_date)
                    /\ trip_started' = TRUE
                    /\ messages' = AppendReply(r.session, r.response)
                    /\ ev' = [base EXCEPT !.user = initial_prompt,
                                !.called = r.called, !.arg = msgs1,
                                !.sent = r.sent, !.response = r.response]

-----------------------------------------------------------------------------
(* A chat turn.                                                            *)

\* if api_key: the search and the completion both sit under this test.
RespondAlways(api_key) == TRUE
Respond(api_key) == TruthyStr(api_key)

ChatTurn ==
    \E prompt \in Prompts, api_key \in ApiKeys,
       found \in SearchOutcomes, outcome \in CompletionOutcomes :
      /\ trip_started
      /\ Len(messages) + 2 <= MaxMsgs
      /\ LET msgs1 == AppendMessage(messages, "user", prompt)
             base == [NoEvent EXCEPT !.kind = "chat", !.api_key = api_key,
                        !.user = prompt, !.before = messages,
                        !.started_before = trip_started,
                        !.context_before = trip_context]
         IN /\ UNCHANGED <<trip_started, trip_context>>
            /\ IF Respond(api_key)
               THEN LET destination_context == DictGet(trip_context, "destination", "")
                        search_query == prompt \o <<" ", destination_context>>
                        web_data == search_web(search_query, found)
                        r == get_groq_response(msgs1, api_key, web_data, outcome)
                    IN /\ messages' = AppendReply(r.session, r.response)
                       /\ ev' = [base EXCEPT !.searched = TRUE,
                                   !.query = search_query, !.web = web_data,
                                   !.called = r.called, !.arg = msgs1,
                                   !.sent = r.sent, !.response = r.response]
               ELSE /\ messages' = msgs1
                    /\ ev' = base

-----------------------------------------------------------------------------
(* Reset Planner.                                                          *)

ResetPlannerKeepsContext ==
    /\ messages' = <<>>
    /\ trip_started' = FALSE
    /\ UNCHANGED trip_context
    /\ ev' = [NoEvent EXCEPT !.kind = "reset", !.before = messages,
                !.started_before = trip_started, !.context_before = trip_context]
ResetPlanner ==
    /\ messages' = <<>>
    /\ trip_started' = FALSE
    /\ trip_context' = {}
    /\ ev' = [NoEvent EXCEPT !.kind = "reset", !.before = messages,
                !.started_before = trip_started, !.context_before = trip_context]

Next == GenerateInitialItinerary \/ ChatTurn \/ ResetPlanner

Spec == Init /\ [][Next]_vars

-----------------------------------------------------------------------------
(* Properties.  ev describes the last event: its inputs, the session as it *)
(* was before it (before, started_before, context_before) and the calls it *)
(* made (searched, called, arg, sent, response).                           *)

Accepted == \/ ev.kind = "intake" /\ ev.verdict = "ok"
            \/ ev.kind = "chat"

UserMsgOfEvent == Msg("user", ev.user)

HasContextBlock(content) == Contains(content, CONTEXT_HEADER[1])

WithinCap == ev.end_date - ev.start_date <= MaxTripDays

\* C1: no stored message ever holds the injected real-time web context
\* block; what an accepted event stores is exactly its user text (the
\* synthesized prompt or the literal chat input) and, if there is a reply,
\* the assistant's literal reply.
C1_NoContextStored ==
    /\ \A i \in 1..Len(messages) : ~HasContextBlock(messages[i].content)
    /\ Accepted =>
         messages = ev.before \o <<UserMsgOfEvent>>
                    \o (IF Truthy(ev.response)
                        THEN <<Msg("assistant", ev.response)>> ELSE <<>>)

C1_Witness ==
    /\ ev.kind = "chat" /\ ev.called /\ Truthy(ev.web) /\ Truthy(ev.response)
    /\ HasContextBlock(ev.sent[Len(ev.sent)].content)

IntakeSucceeded ==
    /\ trip_started
    /\ trip_context # {}
    /\ DictGet(trip_context, "source", "") = ev.source
    /\ DictGet(trip_context, "destination", "") = ev.destination
    /\ Len(messages) >= 1
    /\ messages[1].role = "user"
    /\ Contains(messages[1].content, ev.source)
    /\ Contains(messages[1].content, ev.destination)
    /\ Cardinality({i \in 1..Len(messages) : messages[i].role = "user"}) = 1

\* C2 as stated: an intake with non-empty source and destination and a
\* duration of at most 60 days succeeds whatever the credential.
C2_Original ==
    (ev.kind = "intake" /\ ~ev.started_before /\ TruthyStr(ev.source)
       /\ TruthyStr(ev.destination) /\ WithinCap)
    => IntakeSucceeded

\* C2 as amended: an intake with non-empty source and destination, a
\* duration of at most 60 days and a completion credential configured
\* succeeds: the trip context is set, the session is started and exactly one
\* user message, holding source and destination, is appended.
C2_IntakeSucceedsWithKey ==
    (ev.kind = "intake" /\ ~ev.started_before /\ TruthyStr(ev.source)
       /\ TruthyStr(ev.destination) /\ WithinCap /\ TruthyStr(ev.api_key))
    => IntakeSucceeded

C2_Witness ==
    /\ ev.kind = "intake" /\ ev.source = "New York" /\ ev.destination = "Tokyo"
    /\ ev.end_date - ev.start_date = MaxTripDays
    /\ TruthyStr(ev.api_key) /\ trip_started /\ Len(messages) = 2

\* C3: an intake with an empty source, an empty destination or a duration
\* above 60 days is rejected and changes nothing: no message, not started,
\* no trip context, no completion call and no search.
C3_InvalidIntakeRejected ==
    (ev.kind = "intake"
       /\ (~TruthyStr(ev.source) \/ ~TruthyStr(ev.destination) \/ ~WithinCap))
    => /\ ev.verdict # "ok"
       /\ messages = ev.before /\ messages = <<>>
       /\ trip_started = ev.started_before /\ ~trip_started
       /\ trip_context = ev.context_before /\ trip_context = {}
       /\ ~ev.called /\ ~ev.searched

C3_Witness ==
    /\ ev.kind = "intake" /\ TruthyStr(ev.source) /\ TruthyStr(ev.destination)
    /\ TruthyStr(ev.api_key)
    /\ ev.end_date - ev.start_date = MaxTripDays + 1
    /\ ev.verdict = "toolong"

\* C4: an intake whose end date is earlier than its start date fails: the
\* session is not started and no message is appended.
C4_EndBeforeStartRejected ==
    (ev.kind = "intake" /\ ev.end_date < ev.start_date)
    => /\ ~trip_started
       /\ messages = ev.before

FailedTurn == Accepted /\ ~Truthy(ev.response)

\* C5: after an accepted intake or chat turn whose completion gives no
\* reply, the history ends with that event's user message, nothing else was
\* appended and the session is started; the chat turn that follows is
\* processed as any other (its user message is appended and, when the
\* completion replies, so is the reply).
C5_FailedTurnKeepsUserMessage ==
    [][ /\ FailedTurn' =>
             /\ messages' = Append(ev'.before, Msg("user", ev'.user))
             /\ messages'[Len(messages')].role = "user"
             /\ trip_started'
        /\ (FailedTurn /\ ev'.kind = "chat") =>
             /\ ev'.before = messages
             /\ IsPrefix(Append(messages, Msg("user", ev'.user)), messages')
             /\ TruthyStr(ev'.api_key) => (ev'.searched /\ ev'.called)
             /\ Truthy(ev'.response) =>
                  messages' = messages \o <<Msg("user", ev'.user),
                                            Msg("assistant", ev'.response)>>
      ]_vars

C5_Witness ==
    /\ ev.kind = "chat" /\ ev.called /\ Truthy(ev.response)
    /\ Len(ev.before) >= 2
    /\ \A i \in 1..Len(ev.before) : ev.before[i].role = "user"

\* C6: reset is possible in every state and yields the initial session:
\* no messages, not started, empty trip context.
C6_ResetYieldsInitial ==
    /\ ENABLED ResetPlanner
    /\ ev.kind = "reset" =>
         (messages = <<>> /\ trip_started = FALSE /\ trip_context = {})

C6_Witness ==
    /\ ev.kind = "reset" /\ ev.started_before
    /\ ev.before # <<>> /\ ev.context_before # {}
    /\ ev.before[Len(ev.before)].role = "user"

\* C7: the history sent to the completion provider is the system message
\* followed by one message per stored message, same order and roles; all
\* but the last have the stored content, the last has the stored content as
\* a prefix, and is equal to it when the search gave nothing.
C7_OutboundHistory ==
    ev.called =>
      LET n == Len(ev.arg) IN
      /\ IsPrefix(ev.arg, messages)
      /\ Len(ev.sent) = n + 1
      /\ ev.sent[1] = Msg("system", SYSTEM_PROMPT)
      /\ \A i \in 1..n : ev.sent[i + 1].role = ev.arg[i].role
      /\ \A i \in 1..(n - 1) : ev.sent[i + 1].content = ev.arg[i].content
      /\ IsPrefix(ev.arg[n].content, ev.sent[n + 1].content)
      /\ ~Truthy(ev.web) => ev.sent[n + 1].content = ev.arg[n].content

C7_Witness ==
    /\ ev.called /\ Truthy(ev.web) /\ Len(ev.arg) >= 3
    /\ ev.sent[Len(ev.sent)].content # ev.arg[Len(ev.arg)].content

ChatWithoutKey == ev.kind = "chat" /\ ~TruthyStr(ev.api_key)

C9_AppendOnly ==
    [][ev'.kind # "reset" => IsPrefix(messages, messages')]_vars

C9_Witness ==
    /\ ev.kind = "chat" /\ Truthy(ev.web) /\ Len(ev.before) >= 2
    /\ Len(messages) = Len(ev.before) + 2

\* C10: started, a non-empty history and a set trip context go together,
\* and a non-empty history begins with the user's synthesized intake prompt.
C10_SessionFieldsAgree ==
    /\ trip_started <=> messages # <<>>
    /\ trip_started <=> trip_context # {}
    /\ messages # <<>> =>
         /\ messages[1].role = "user"
         /\ Contains(messages[1].content, DictGet(trip_context, "source", ""))
         /\ Contains(messages[1].content, DictGet(trip_context, "destination", ""))

C10_Witness ==
    /\ ev.kind = "intake" /\ ev.verdict = "ok" /\ ~Truthy(ev.response)
    /\ trip_started /\ Len(messages) = 1 /\ trip_context # {}

====
